---- MODULE Spec2Model ----
(***************************************************************************)
(* The SPF chain resolver of easybill/spf-check: the iterative             *)
(* SpfChecker::check of src/spf_checker.rs, one traversal from a root      *)
(* domain looking for a target domain among the include mechanisms of the  *)
(* records reachable through include and redirect.                         *)
(*                                                                         *)
(* A domain is an integer.  What the record source (the SpnResolver)       *)
(* publishes for a domain is drawn when the domain is first queried and    *)
(* remembered in resolver, so the source is unchanged during a traversal.  *)
(* An Option<T> is a set with at most one element.                         *)
(***************************************************************************)
EXTENDS Integers, Sequences, FiniteSets, TLC

\* spf_checker.rs:39
DNS_LOOKUP_LIMIT == 10

\* Bounds of the record sources explored.
SmallN == 3
MaxTerms == 2
ChainLen == 15

----------------------------------------------------------------------------
(* Domains: a small cluster whose records name each other freely, and a    *)
(* long chain c1 -> c2 -> ... of ChainLen domains.                         *)

SmallDomains == 1..SmallN
ChainDomain(i) == SmallN + i
ChainDomains == {ChainDomain(i) : i \in 1..ChainLen}
Domain == SmallDomains \cup ChainDomains

SmallRoot == CHOOSE d \in SmallDomains : \A e \in SmallDomains : d <= e
ChainRoot == ChainDomain(1)

----------------------------------------------------------------------------
(* SPF records: the raw text is the sequence of its terms.                 *)

Include(d)  == [kind |-> "include",  rrdata |-> {d}]
Redirect(d) == [kind |-> "redirect", rrdata |-> {d}]
All         == [kind |-> "all",      rrdata |-> {}]
Other       == [kind |-> "other",    rrdata |-> {}]
Malformed   == [kind |-> "malformed", rrdata |-> {}]

\* Result<Option<String>> of find_spf_record
LookupFailed == [ok |-> FALSE, txt |-> {}]
NoRecord     == [ok |-> TRUE,  txt |-> {}]
Record(txt)  == [ok |-> TRUE,  txt |-> {txt}]

SmallTerms == {Include(d) : d \in SmallDomains} \cup {Redirect(d) : d \in SmallDomains}
                \cup {All, Other}
SmallTexts == UNION {[1..n -> SmallTerms] : n \in 0..MaxTerms}

\* What a small domain may publish: anything.
SmallPublished == {LookupFailed, NoRecord, Record(<<Malformed>>)}
                    \cup {Record(t) : t \in SmallTexts}

\* What the i-th domain of the chain may publish: nothing, an include of the
\* next domain, or an include back to the head with a redirect to the next.
ChainPublished(d) ==
    IF d = ChainDomain(ChainLen)
    THEN {NoRecord, Record(<<All>>)}
    ELSE {NoRecord,
          Record(<<Include(d + 1), All>>),
          Record(<<Include(ChainRoot), Redirect(d + 1)>>)}

Published(d) == IF d \in SmallDomains THEN SmallPublished ELSE ChainPublished(d)

\* The (root, target) requests: a target may be any domain of the root's
\* cluster, or a domain of the other cluster, which no record of it names.
Requests == ({SmallRoot} \X (SmallDomains \cup {ChainRoot}))
              \cup ({ChainRoot} \X (ChainDomains \cup {SmallRoot}))

----------------------------------------------------------------------------
VARIABLES
    resolver,          \* the answers the record source has given, by domain
    lookups,           \* the find_spf_record calls of this traversal, in order
    root_domain,
    target,
    to_visit_stack,
    visited,
    root_spf_record,
    included_domains,
    pc,                \* "loop" | "done"
    result,            \* Result<CheckResult>, once pc = "done"
    other,             \* the locals of a second call of check on the same SpfChecker
    tasks,             \* main.rs: the pending calls of the recursive check, by path
    get_spf_calls,     \* main.rs: how often get_spf was called, by domain
    response,          \* main.rs: what check_spf answers
    raw_form           \* main.rs: what Mechanism::raw gives for a redirect term

\* the state of the HTTP service of main.rs
service == <<tasks, get_spf_calls, response, raw_form>>

vars == <<resolver, lookups, root_domain, target, to_visit_stack, visited,
          root_spf_record, included_domains, pc, result, other, service>>

\* what a step of the first call of check does not touch
elsewhere == <<other, service>>

----------------------------------------------------------------------------
(* decon_spf, as far as check uses it.                                     *)

\* Mechanism::raw of an include or a redirect: the domain it names
raw(mechanism) == CHOOSE d \in mechanism.rrdata : TRUE

\* Spf::from_str(..).context("SPF_PARSE_FAILED")
Spf_from_str(spf_txt) ==
    IF \E i \in 1..Len(spf_txt) : spf_txt[i].kind = "malformed"
    THEN [ok |-> FALSE, mechanisms |-> <<>>]
    ELSE [ok |-> TRUE,  mechanisms |-> spf_txt]

is_include(mechanism)  == mechanism.kind = "include"
is_redirect(mechanism) == mechanism.kind = "redirect"
is_all(mechanism)      == mechanism.kind = "all"

RECURSIVE RawOf(_)
RawOf(ms) == IF ms = <<>> THEN <<>> ELSE <<raw(Head(ms))>> \o RawOf(Tail(ms))

is_include_or_redirect(mechanism) == is_include(mechanism) \/ is_redirect(mechanism)

Includes_WithRedirects(spf) == RawOf(SelectSeq(spf.mechanisms, is_include_or_redirect))

\* spf.iter().filter(is_include).map(raw).collect()
Includes(spf) == RawOf(SelectSeq(spf.mechanisms, is_include))

\* spf.iter().filter(is_redirect).map(raw)
Redirects(spf) == RawOf(SelectSeq(spf.mechanisms, is_redirect))

\* spf.iter().any(is_all)
HasAll(spf) == \E i \in 1..Len(spf.mechanisms) : is_all(spf.mechanisms[i])

\* Vec::contains
Contains(s, x) == \E i \in 1..Len(s) : s[i] = x

----------------------------------------------------------------------------
(* SpfChecker::check                                                       *)

Pending == [ok |-> FALSE, error |-> "PENDING"]
Err(e)  == [ok |-> FALSE, error |-> e]
Ok(f, v, r, inc) == [ok |-> TRUE, found |-> f, visited |-> v,
                     spf_record |-> r, included_domains |-> inc]

\* a call of check that has not been made
NotCalled == [pc |-> "idle", to_visit_stack |-> <<>>, visited |-> {},
              root_spf_record |-> {}, included_domains |-> <<>>,
              lookups |-> <<>>, result |-> Pending]

\* check_spf has not answered
NoResponse == [status |-> 0]

Init ==
    /\ resolver = <<>>
    /\ lookups = <<>>
    /\ \E rq \in Requests : root_domain = rq[1] /\ target = rq[2]
    /\ to_visit_stack = <<root_domain>>
    /\ visited = {}
    /\ root_spf_record = {}
    /\ included_domains = <<>>
    /\ pc = "loop"
    /\ result = Pending
    /\ other = NotCalled
    /\ tasks = <<>>
    /\ get_spf_calls = <<>>
    /\ response = NoResponse
    /\ raw_form = "rrdata"

\* to_visit_stack.pop()
current_domain == to_visit_stack[Len(to_visit_stack)]
popped_Peek == to_visit_stack

popped == SubSeq(to_visit_stack, 1, Len(to_visit_stack) - 1)

LimitReached_OffByOne(v) == Cardinality(v) > DNS_LOOKUP_LIMIT

LimitReached_Never(v) == FALSE

LimitReached_Early(v) == Cardinality(v) + 1 >= DNS_LOOKUP_LIMIT

\* visited.len() >= DNS_LOOKUP_LIMIT
LimitReached(v) == Cardinality(v) >= DNS_LOOKUP_LIMIT

AlreadyVisited_Never(v, d) == FALSE

\* !visited.insert(current_domain): the domain was in the set already
AlreadyVisited(v, d) == d \in v

VisitedCount_WithRecord(v) ==
    Cardinality({d \in v : d \in DOMAIN resolver /\ resolver[d].txt # {}})

\* visited.len(), as the result reports it
VisitedCount(v) == Cardinality(v)

LookupErr_Swallowed(answer) == FALSE

\* the ? of line 78: the lookup's Err leaves check
LookupErr(answer) == ~answer.ok

IsRoot_Target(d) == d = target

IsRoot_Always(d) == TRUE

\* root_domain == &current_domain
IsRoot(d) == d = root_domain

TargetFound_FirstOnly(includes) == includes # <<>> /\ includes[1] = target

TargetFound_LastOnly(includes) == includes # <<>> /\ includes[Len(includes)] = target

\* includes.contains(target)
TargetFound(includes) == Contains(includes, target)

Pushed_RedirectsOnly(spf) == IF ~HasAll(spf) THEN Redirects(spf) ELSE <<>>

Pushed_IncludesOnly(spf) == Includes(spf)

Pushed_IgnoringAll(spf) == Redirects(spf) \o Includes(spf)

Pushed_IncludesFirst(spf) == Includes(spf) \o (IF ~HasAll(spf) THEN Redirects(spf) ELSE <<>>)

\* what lines 110-120 push on the stack, bottom first
Pushed(spf) == (IF ~HasAll(spf) THEN Redirects(spf) ELSE <<>>) \o Includes(spf)

\* self.resolver.find_spf_record(d): the source answers the same every time
Answers(d) == IF d \in DOMAIN resolver THEN {resolver[d]} ELSE Published(d)

Return(r) ==
    /\ pc' = "done"
    /\ result' = r

\* the while-let finds the stack empty
FrontierEmpty ==
    /\ pc = "loop"
    /\ to_visit_stack = <<>>
    /\ Return(Ok(FALSE, VisitedCount(visited), root_spf_record, included_domains))
    /\ UNCHANGED <<resolver, lookups, root_domain, target, to_visit_stack, visited,
                   root_spf_record, included_domains, elsewhere>>

\* lines 64-71: break
BudgetExhausted ==
    /\ pc = "loop"
    /\ to_visit_stack # <<>>
    /\ LimitReached(visited)
    /\ to_visit_stack' = popped
    /\ Return(Ok(FALSE, VisitedCount(visited), root_spf_record, included_domains))
    /\ UNCHANGED <<resolver, lookups, root_domain, target, visited,
                   root_spf_record, included_domains, elsewhere>>

\* lines 73-76: continue
SkipVisited ==
    /\ pc = "loop"
    /\ to_visit_stack # <<>>
    /\ ~LimitReached(visited)
    /\ AlreadyVisited(visited, current_domain)
    /\ to_visit_stack' = popped
    /\ UNCHANGED <<resolver, lookups, root_domain, target, visited,
                   root_spf_record, included_domains, pc, result, elsewhere>>

\* lines 73-120 for a domain not visited before, with the source's answer
Visit(answer) ==
    /\ pc = "loop"
    /\ to_visit_stack # <<>>
    /\ ~LimitReached(visited)
    /\ ~AlreadyVisited(visited, current_domain)
    /\ visited' = visited \cup {current_domain}
    /\ lookups' = Append(lookups, current_domain)
    /\ resolver' = (current_domain :> answer) @@ resolver
    /\ UNCHANGED <<root_domain, target, elsewhere>>
    /\ IF LookupErr(answer)
       THEN \* line 78: ?
            /\ Return(Err("DNS_LOOKUP_FAILED"))
            /\ to_visit_stack' = popped
            /\ UNCHANGED <<root_spf_record, included_domains>>
       ELSE IF answer.txt = {}
       THEN \* lines 78-80: continue
            /\ to_visit_stack' = popped
            /\ UNCHANGED <<root_spf_record, included_domains, pc, result>>
       ELSE LET spf_txt == CHOOSE t \in answer.txt : TRUE
                spf == Spf_from_str(spf_txt)
                root_rec == IF IsRoot(current_domain) THEN {spf_txt} ELSE root_spf_record
                includes == Includes(spf)
                incl == included_domains \o includes
            IN  IF ~spf.ok
                THEN \* line 82: ?
                     /\ Return(Err("SPF_PARSE_FAILED"))
                     /\ to_visit_stack' = popped
                     /\ UNCHANGED <<root_spf_record, included_domains>>
                ELSE /\ root_spf_record' = root_rec
                     /\ included_domains' = incl
                     /\ IF TargetFound(includes)
                        THEN \* lines 96-104
                             /\ Return(Ok(TRUE, VisitedCount(visited'), root_rec, incl))
                             /\ to_visit_stack' = popped
                        ELSE \* lines 110-120
                             /\ to_visit_stack' = popped \o Pushed(spf)
                             /\ UNCHANGED <<pc, result>>

Lookup ==
    /\ pc = "loop"
    /\ to_visit_stack # <<>>
    /\ \E answer \in Answers(current_domain) : Visit(answer)

Next == FrontierEmpty \/ BudgetExhausted \/ SkipVisited \/ Lookup

Spec == Init /\ [][Next]_vars

\* The traversal is one sequential task: it runs to its return.
FairSpec == Spec /\ WF_vars(Next)

----------------------------------------------------------------------------
(* A second call of check with the same root and target, made at any time  *)
(* on the same SpfChecker: it shares the resolver and nothing else.        *)

FreshVisited_Shared == visited

\* line 58: let mut visited = HashSet::new()
FreshVisited == {}

\* lines 57-61
OtherCall ==
    /\ other.pc = "idle"
    /\ other' = [pc |-> "loop", to_visit_stack |-> <<root_domain>>,
                 visited |-> FreshVisited, root_spf_record |-> {},
                 included_domains |-> <<>>, lookups |-> <<>>, result |-> Pending]
    /\ UNCHANGED <<resolver, lookups, root_domain, target, to_visit_stack, visited,
                   root_spf_record, included_domains, pc, result, service>>

\* the call c returns r
Returning(c, r) == [c EXCEPT !.pc = "done", !.result = r]

\* one iteration of the loop of lines 63-121 that issues no lookup
Iterate(c) ==
    LET rest == SubSeq(c.to_visit_stack, 1, Len(c.to_visit_stack) - 1)
        not_found == Ok(FALSE, VisitedCount(c.visited), c.root_spf_record,
                        c.included_domains)
    IN  IF c.to_visit_stack = <<>>
        THEN Returning(c, not_found)
        ELSE IF LimitReached(c.visited)
        THEN Returning([c EXCEPT !.to_visit_stack = rest], not_found)
        ELSE [c EXCEPT !.to_visit_stack = rest]

\* one iteration of the loop of lines 63-121 that looks the popped domain up
Visiting(c, answer) ==
    LET d == c.to_visit_stack[Len(c.to_visit_stack)]
        rest == SubSeq(c.to_visit_stack, 1, Len(c.to_visit_stack) - 1)
        v == [c EXCEPT !.to_visit_stack = rest,
                       !.visited = c.visited \cup {d},
                       !.lookups = Append(c.lookups, d)]
    IN  IF LookupErr(answer)
        THEN Returning(v, Err("DNS_LOOKUP_FAILED"))
        ELSE IF answer.txt = {}
        THEN v
        ELSE LET spf_txt == CHOOSE t \in answer.txt : TRUE
                 spf == Spf_from_str(spf_txt)
                 root_rec == IF IsRoot(d) THEN {spf_txt} ELSE c.root_spf_record
                 includes == Includes(spf)
                 w == [v EXCEPT !.root_spf_record = root_rec,
                                !.included_domains = c.included_domains \o includes]
             IN  IF ~spf.ok
                 THEN Returning(v, Err("SPF_PARSE_FAILED"))
                 ELSE IF TargetFound(includes)
                 THEN Returning(w, Ok(TRUE, VisitedCount(w.visited), root_rec,
                                      w.included_domains))
                 ELSE [w EXCEPT !.to_visit_stack = rest \o Pushed(spf)]

\* the second call finds the stack empty, the budget used or the domain visited
OtherIterate ==
    /\ other.pc = "loop"
    /\ IF other.to_visit_stack = <<>> \/ LimitReached(other.visited)
       THEN TRUE
       ELSE AlreadyVisited(other.visited, other.to_visit_stack[Len(other.to_visit_stack)])
    /\ other' = Iterate(other)
    /\ UNCHANGED <<resolver, lookups, root_domain, target, to_visit_stack, visited,
                   root_spf_record, included_domains, pc, result, service>>

\* the second call looks a domain up
OtherLookup ==
    /\ other.pc = "loop"
    /\ other.to_visit_stack # <<>>
    /\ ~LimitReached(other.visited)
    /\ LET d == other.to_visit_stack[Len(other.to_visit_stack)]
       IN  /\ ~AlreadyVisited(other.visited, d)
           /\ \E answer \in Answers(d) :
                 /\ other' = Visiting(other, answer)
                 /\ resolver' = (d :> answer) @@ resolver
    /\ UNCHANGED <<lookups, root_domain, target, to_visit_stack, visited,
                   root_spf_record, included_domains, pc, result, service>>

NextCalls == Next \/ OtherCall \/ OtherIterate \/ OtherLookup

\* two calls of check, their steps interleaved in any order
SpecCalls == Init /\ [][NextCalls]_vars

----------------------------------------------------------------------------
(* The HTTP service of src/main.rs: check_spf runs the recursive           *)
(* SpfChecker::check, which queries the include targets of a record        *)
(* concurrently (join_all), each in a branch that owns a clone of the      *)
(* visited set, and then calls itself for the redirect on the caller's set.*)
(* A pending call is a frame of tasks; its path is <<>> for the call made  *)
(* by check_spf, Append(p, i) for the i-th include branch of the call at p *)
(* and Append(p, 0) for its redirect call.                                 *)

\* main.rs:59
max_depth == 10

\* Bounds of the layered record source: every domain of a layer includes all
\* the domains of the next layer.
DagDepth == 3
DagWidth == 2

DagBase == SmallN + ChainLen
DagRoot == DagBase + 1
DagLayer(k) == {DagRoot + (k - 1) * DagWidth + j : j \in 1..DagWidth}
DagDomains == {DagRoot} \cup UNION {DagLayer(k) : k \in 1..DagDepth}
DagLayerOf(d) == IF d = DagRoot THEN 0 ELSE ((d - DagRoot - 1) \div DagWidth) + 1

\* What a domain of the layered source may publish
DagPublished(d) ==
    IF DagLayerOf(d) = DagDepth
    THEN {NoRecord, LookupFailed, Record(<<All>>)}
    ELSE {NoRecord, LookupFailed,
          Record([j \in 1..DagWidth |->
                    Include(DagRoot + DagLayerOf(d) * DagWidth + j)])}

\* The requests check_spf serves
ServiceRequests == Requests \cup ({DagRoot} \X ({SmallRoot} \cup DagLayer(DagDepth)))

\* self.get_spf(domain): the source answers the same every time
get_spf(d) ==
    IF d \in DOMAIN resolver THEN {resolver[d]}
    ELSE IF d \in DagDomains THEN DagPublished(d) ELSE Published(d)

\* m.raw(): the text of a mechanism, as the key it begins with and the name
raw_str(m) ==
    [key  |-> IF is_redirect(m) /\ raw_form = "term" THEN "redirect=" ELSE "",
     name |-> m.rrdata]

\* m.raw().starts_with("redirect=")
starts_with_redirect(m) == raw_str(m).key = "redirect="

\* lines 115-118: the first mechanism whose raw text starts with "redirect=",
\* that text trimmed of it
redirect_of(spf) ==
    LET found == {i \in 1..Len(spf.mechanisms) : starts_with_redirect(spf.mechanisms[i])}
        first == CHOOSE i \in found : \A j \in found : i <= j
    IN  IF found = {} THEN {} ELSE raw_str(spf.mechanisms[first]).name

\* Ok((found, spf_record, included_domains))
Triple(f, r, inc) == [ok |-> TRUE, found |-> f, spf_record |-> r,
                      included_domains |-> inc]

\* a call of check(domain, target, visited) about to run
Call(d, v) == [domain |-> d, visited |-> v, pc |-> "start", spf_txt |-> {},
               includes |-> <<>>, redirect |-> {}, result |-> Pending]

\* the call returns r
Returns(t, r) == [t EXCEPT !.pc = "done", !.result = r]

\* visited.len() == 1: the call made by check_spf
TopLevel(v) == Cardinality(v) = 1

\* the frames of tasks without those at the paths gone
Without(gone) == [q \in DOMAIN tasks \ gone |-> tasks[q]]

\* the check_spf handler is entered: line 198 and the call of lines 200-202
InitService ==
    /\ resolver = <<>>
    /\ \E rq \in ServiceRequests : root_domain = rq[1] /\ target = rq[2]
    /\ raw_form \in {"rrdata", "term"}
    /\ tasks = (<<>> :> Call(root_domain, {}))
    /\ get_spf_calls = <<>>
    /\ response = NoResponse
    /\ lookups = <<>>
    /\ to_visit_stack = <<>>
    /\ visited = {}
    /\ root_spf_record = {}
    /\ included_domains = <<>>
    /\ pc = "service"
    /\ result = Pending
    /\ other = NotCalled

notService == <<lookups, root_domain, target, to_visit_stack, visited,
                root_spf_record, included_domains, pc, result, other, raw_form>>

\* lines 87-98: the branch is at max_depth or has the domain already
Refuse(p) ==
    /\ p \in DOMAIN tasks
    /\ tasks[p].pc = "start"
    /\ \/ Cardinality(tasks[p].visited) >= max_depth
       \/ tasks[p].domain \in tasks[p].visited
    /\ tasks' = [tasks EXCEPT ![p] = Returns(@, Triple(FALSE, {}, {}))]
    /\ UNCHANGED <<resolver, get_spf_calls, response, notService>>

\* the frame of the call of p's frame t after lines 96-159 with the source's
\* answer: returned, or waiting for its include branches
Entered(t, answer) ==
    LET v == t.visited \cup {t.domain}
        u == [t EXCEPT !.visited = v]
    IN  IF ~answer.ok
        THEN Returns(u, Err("DNS_LOOKUP_FAILED"))
        ELSE IF answer.txt = {}
        THEN Returns(u, Triple(FALSE, {}, {}))
        ELSE LET spf_txt == CHOOSE x \in answer.txt : TRUE
                 spf == Spf_from_str(spf_txt)
                 includes == Includes(spf)
             IN  IF ~spf.ok
                 THEN Returns(u, Err("SPF_PARSE_FAILED"))
                 ELSE IF Contains(includes, target)
                 THEN Returns(u, IF TopLevel(v)
                                 THEN Triple(TRUE, {spf_txt}, {includes})
                                 ELSE Triple(TRUE, {}, {}))
                 ELSE [u EXCEPT !.pc = "join", !.spf_txt = {spf_txt},
                                !.includes = includes,
                                !.redirect = redirect_of(spf)]

\* lines 127-139 and 162-170: one branch per include, each on a clone of visited
Branches(p, t) ==
    [q \in {Append(p, i) : i \in 1..Len(t.includes)} |->
        Call(t.includes[q[Len(q)]], t.visited)]

\* lines 96-139 and 157-170 for a domain the branch has not visited
Enter(p) ==
    /\ p \in DOMAIN tasks
    /\ tasks[p].pc = "start"
    /\ Cardinality(tasks[p].visited) < max_depth
    /\ tasks[p].domain \notin tasks[p].visited
    /\ LET d == tasks[p].domain
       IN  /\ \E answer \in get_spf(d) :
                 /\ resolver' = (d :> answer) @@ resolver
                 /\ LET t == Entered(tasks[p], answer)
                    IN  tasks' = IF t.pc = "join"
                                 THEN Branches(p, t) @@ [tasks EXCEPT ![p] = t]
                                 ELSE [tasks EXCEPT ![p] = t]
           /\ get_spf_calls' = IF d \in DOMAIN get_spf_calls
                               THEN [get_spf_calls EXCEPT ![d] = @ + 1]
                               ELSE (d :> 1) @@ get_spf_calls
    /\ UNCHANGED <<response, notService>>

\* r.as_ref().unwrap_or(&(false, None, None)).0
BranchFound(r) == r.ok /\ r.found

\* lines 141-153 and 172-184 once join_all has every branch's result
Joined(p) ==
    /\ p \in DOMAIN tasks
    /\ tasks[p].pc = "join"
    /\ LET t == tasks[p]
           branches == {Append(p, i) : i \in 1..Len(t.includes)}
           found == \E q \in branches : BranchFound(tasks[q].result)
           mine == IF TopLevel(t.visited)
                   THEN Triple(found, t.spf_txt, {t.includes})
                   ELSE Triple(found, {}, {})
       IN  /\ \A q \in branches : tasks[q].pc = "done"
           /\ tasks' =
                IF ~found /\ t.redirect # {}
                THEN (Append(p, 0) :> Call(CHOOSE r \in t.redirect : TRUE, t.visited))
                       @@ [Without(branches) EXCEPT ![p].pc = "redirect"]
                ELSE [Without(branches) EXCEPT ![p] = Returns(t, mine)]
    /\ UNCHANGED <<resolver, get_spf_calls, response, notService>>

\* lines 147-153 and 181: the call for the redirect, made on this call's
\* visited set, has returned
Redirected(p) ==
    /\ p \in DOMAIN tasks
    /\ tasks[p].pc = "redirect"
    /\ LET t == tasks[p]
           c == tasks[Append(p, 0)]
           r == c.result
           mine == IF ~TopLevel(t.visited) \/ ~r.ok
                   THEN r
                   ELSE Triple(r.found, t.spf_txt, {t.includes})
       IN  /\ c.pc = "done"
           /\ tasks' = [Without({Append(p, 0)}) EXCEPT
                          ![p] = Returns([t EXCEPT !.visited = c.visited], mine)]
    /\ UNCHANGED <<resolver, get_spf_calls, response, notService>>

\* lines 204-239: the handler answers
Respond ==
    /\ response = NoResponse
    /\ <<>> \in DOMAIN tasks
    /\ tasks[<<>>].pc = "done"
    /\ LET r == tasks[<<>>].result
       IN  response' =
             IF r.ok
             THEN [status |-> 200, found |-> r.found,
                   checked_domains |-> Cardinality(tasks[<<>>].visited),
                   has_spf_record |-> r.spf_record # {},
                   spf_record |-> r.spf_record,
                   included_domains |-> r.included_domains]
             ELSE [status |-> 404, error |-> r.error]
    /\ UNCHANGED <<resolver, get_spf_calls, tasks, notService>>

\* the paths of the calls that can be pending
Paths == DOMAIN tasks

NextService ==
    \/ \E p \in Paths : Refuse(p)
    \/ \E p \in Paths : Enter(p)
    \/ \E p \in Paths : Joined(p)
    \/ \E p \in Paths : Redirected(p)
    \/ Respond

\* one request served by check_spf
SpecService == InitService /\ [][NextService]_vars

----------------------------------------------------------------------------
(* Vocabulary of the properties.                                           *)

Done == pc = "done"
Returned == Done /\ result.ok

Queried == {lookups[i] : i \in 1..Len(lookups)}

\* the record source gave d a record that parses
HasSpf(d) ==
    /\ d \in DOMAIN resolver
    /\ resolver[d].ok
    /\ resolver[d].txt # {}
    /\ Spf_from_str(CHOOSE t \in resolver[d].txt : TRUE).ok

TextOf(d) == CHOOSE t \in resolver[d].txt : TRUE
SpfOf(d) == Spf_from_str(TextOf(d))

----------------------------------------------------------------------------
\* C1: during one call the visited set never holds more than 10 domains, at
\* most 10 find_spf_record lookups are issued, and a returned visited count is
\* between 1 and 10.
C1_BudgetBound ==
    /\ Cardinality(visited) <= DNS_LOOKUP_LIMIT
    /\ Len(lookups) <= DNS_LOOKUP_LIMIT
    /\ Returned => result.visited \in 1..DNS_LOOKUP_LIMIT

\* the budget stopped a traversal that had work left on the frontier
C1_Witness ==
    /\ Returned
    /\ result.visited = DNS_LOOKUP_LIMIT
    /\ Len(lookups) = DNS_LOOKUP_LIMIT
    /\ to_visit_stack # <<>>

\* C2: find_spf_record is called at most once per domain in one call, and
\* popping a domain that is already visited issues no lookup.
C2_QueriedOnce ==
    /\ [](\A i, j \in 1..Len(lookups) : lookups[i] = lookups[j] => i = j)
    /\ [][(pc = "loop" /\ to_visit_stack # <<>> /\ current_domain \in visited)
            => (lookups' = lookups /\ visited' = visited /\ resolver' = resolver)]_vars

\* domains visited records name (by an edge the traversal follows)
NamedBy(d) == {x \in Queried : HasSpf(x) /\ Contains(Pushed(SpfOf(x)), d)}

\* a drained traversal in which a domain named by two visited records, one of
\* them its own (a cycle through itself or back), was queried
C2_Witness ==
    /\ Returned
    /\ ~result.found
    /\ to_visit_stack = <<>>
    /\ \E d \in Queried : Cardinality(NamedBy(d)) >= 2 /\ root_domain \in NamedBy(d)
    /\ \E d \in Queried : root_domain \in NamedBy(d) /\ d \in NamedBy(root_domain)

\* root A includes B only, B includes A only, neither redirects
CycleAB(a, b) ==
    /\ a # b
    /\ HasSpf(a) /\ HasSpf(b)
    /\ Includes(SpfOf(a)) = <<b>> /\ Redirects(SpfOf(a)) = <<>>
    /\ Includes(SpfOf(b)) = <<a>> /\ Redirects(SpfOf(b)) = <<>>

\* C3: every call returns; on the cycle A -> B -> A with a target named nowhere
\* it returns found = false, visited = 2 with A and B queried once each.
C3_Terminates ==
    /\ <>Done
    /\ [](\A b \in Domain :
            (Done /\ CycleAB(root_domain, b) /\ target \notin {root_domain, b})
              => /\ result = Ok(FALSE, 2, {TextOf(root_domain)}, <<b, root_domain>>)
                 /\ lookups = <<root_domain, b>>)

C3_Witness ==
    \E b \in Domain :
        /\ Done
        /\ CycleAB(root_domain, b)
        /\ target \notin {root_domain, b}
        /\ result.ok /\ result.visited = 2

\* the domains a sequence holds
Range(s) == {s[i] : i \in 1..Len(s)}

\* the edges of the SPF chain at d: its include targets, and its redirect
\* targets when its record holds no all mechanism
Edges(d) ==
    IF HasSpf(d)
    THEN Range(Includes(SpfOf(d)))
           \cup (IF HasAll(SpfOf(d)) THEN {} ELSE Range(Redirects(SpfOf(d))))
    ELSE {}

RECURSIVE Closure(_)
Closure(S) ==
    LET N == S \cup UNION {Edges(d) : d \in S}
    IN  IF N = S THEN S ELSE Closure(N)

\* the domains reachable from root through the records the source has given
Reachable == Closure({root_domain})

IncludedBy(d) == HasSpf(d) /\ Contains(Includes(SpfOf(d)), target)
\* d's record redirects to target and holds no all mechanism
RedirectedBy(d) ==
    HasSpf(d) /\ ~HasAll(SpfOf(d)) /\ Contains(Redirects(SpfOf(d)), target)

\* C4 (as amended): with every reachable record known, at most 10 domains
\* reachable and no failure, found = true exactly when some reachable domain's
\* record names target in an include mechanism; being named by a redirect
\* alone does not count.
C4_FoundIffIncluded ==
    Returned =>
        /\ result.found => \E d \in Reachable : IncludedBy(d)
        /\ (~result.found /\ Reachable \subseteq DOMAIN resolver
              /\ Cardinality(Reachable) <= DNS_LOOKUP_LIMIT)
             => ~\E d \in Reachable : IncludedBy(d)

\* root's record is a bare redirect to the target, the whole chain was explored
C4_Witness ==
    /\ Returned
    /\ target # root_domain
    /\ resolver[root_domain] = Record(<<Redirect(target)>>)
    /\ Reachable \subseteq DOMAIN resolver
    /\ ~result.found
    /\ result.visited = 2

\* C4 as stated: found = true exactly when a reachable record names target by
\* an include or by a redirect (one that no all mechanism suppresses).
C4_AsStated ==
    (Returned /\ Reachable \subseteq DOMAIN resolver
       /\ Cardinality(Reachable) <= DNS_LOOKUP_LIMIT)
      => (result.found <=> \E d \in Reachable : IncludedBy(d) \/ RedirectedBy(d))

\* C5: when root's own record includes target, the call returns found = true,
\* visited = 1, root's raw record and root's includes in record order, after
\* the one lookup of root.
C5_DirectMatch ==
    IncludedBy(root_domain) =>
        /\ Done
        /\ result = Ok(TRUE, 1, {TextOf(root_domain)}, Includes(SpfOf(root_domain)))
        /\ lookups = <<root_domain>>

C5_Witness ==
    /\ IncludedBy(root_domain)
    /\ target # root_domain
    /\ Len(Includes(SpfOf(root_domain))) = 2
    /\ result.ok /\ result.found

\* C6: a domain other than root is queried only because an earlier record
\* includes it, or redirects to it and holds no all mechanism; with root record
\* 'all redirect=R' (either order) R is never queried and visited = 1.
C6_AllSuppressesRedirect ==
    /\ \A i \in 2..Len(lookups) : \E j \in 1..(i - 1) :
          /\ HasSpf(lookups[j])
          /\ \/ Contains(Includes(SpfOf(lookups[j])), lookups[i])
             \/ /\ Contains(Redirects(SpfOf(lookups[j])), lookups[i])
                /\ ~HasAll(SpfOf(lookups[j]))
    /\ \A r \in Domain \ {root_domain} :
          (/\ Done
           /\ resolver[root_domain] \in {Record(<<All, Redirect(r)>>),
                                          Record(<<Redirect(r), All>>)})
            => /\ result = Ok(FALSE, 1, {TextOf(root_domain)}, <<>>)
               /\ r \notin Queried

C6_Witness ==
    \E r \in Domain \ {root_domain} :
        /\ Done
        /\ resolver[root_domain] = Record(<<All, Redirect(r)>>)
        /\ result.ok /\ result.visited = 1

\* d's record was expanded: it parsed and did not name target in an include
Expanded(d) == d \in Queried /\ HasSpf(d) /\ ~IncludedBy(d)

\* root redirects to r, whose record includes target
RedirectExample(r) ==
    /\ r # root_domain
    /\ resolver[root_domain] = Record(<<Redirect(r)>>)
    /\ IncludedBy(r)

\* C7 (as amended): the redirect target of an expanded record without all is
\* queried unless the call ends first by match, by budget or by an error; root
\* 'redirect=R' with R including target gives found = true, visited = 2, root's
\* raw record and R's includes.
C7_RedirectFollowed ==
    /\ Done =>
          \A d \in Queried : (Expanded(d) /\ ~HasAll(SpfOf(d))) =>
              \A r \in Range(Redirects(SpfOf(d))) :
                  \/ r \in Queried
                  \/ ~result.ok
                  \/ result.found
                  \/ result.visited >= DNS_LOOKUP_LIMIT
    /\ \A r \in Domain :
          (Done /\ RedirectExample(r))
            => result = Ok(TRUE, 2, {TextOf(root_domain)}, Includes(SpfOf(r)))

C7_Witness ==
    \E r \in Domain :
        /\ Done
        /\ RedirectExample(r)
        /\ lookups = <<root_domain, r>>
        /\ result.ok /\ result.found

\* C7 as stated: ... unless the call ends first by match or by budget.
C7_AsStated ==
    Done =>
        \A d \in Queried : (Expanded(d) /\ ~HasAll(SpfOf(d))) =>
            \A r \in Range(Redirects(SpfOf(d))) :
                \/ r \in Queried
                \/ result.ok /\ result.found
                \/ result.ok /\ result.visited >= DNS_LOOKUP_LIMIT

\* the lookup of d failed, or its record does not parse
Failed(d) ==
    /\ d \in DOMAIN resolver
    /\ \/ ~resolver[d].ok
       \/ resolver[d].txt # {} /\ ~Spf_from_str(TextOf(d)).ok

\* C8: a failed lookup or an unparsable record, of root or of any later
\* domain, is the last lookup of the call, which returns the error and no
\* CheckResult.
C8_ErrorsAbort ==
    \A i \in 1..Len(lookups) : Failed(lookups[i]) =>
        /\ i = Len(lookups)
        /\ Done
        /\ result = Err(IF resolver[lookups[i]].ok THEN "SPF_PARSE_FAILED"
                                                   ELSE "DNS_LOOKUP_FAILED")

C8_Witness ==
    /\ Done
    /\ Len(lookups) = 3
    /\ Failed(lookups[3])
    /\ ~resolver[lookups[3]].ok
    /\ ~result.ok

\* every queried domain of the chain includes the next one
PureChain ==
    /\ root_domain = ChainRoot
    /\ \A d \in Queried : resolver[d] = Record(<<Include(d + 1), All>>)

\* targets first named by the record of a domain below the 10th of the chain
DeepTargets == {ChainDomain(j) : j \in (DNS_LOOKUP_LIMIT + 2)..ChainLen}

\* C9: a call in which no lookup or parse failed returns Ok, also when the
\* budget stops it or a domain has no record; on the chain with a target named
\* only below the 10th domain it returns found = false, visited <= 10, root's
\* record and the includes gathered so far.
C9_BudgetIsNotAnError ==
    /\ (Done /\ \A d \in Queried : ~Failed(d)) => result.ok
    /\ (Done /\ PureChain /\ target \in DeepTargets) =>
          /\ result.ok
          /\ ~result.found
          /\ result.visited <= DNS_LOOKUP_LIMIT
          /\ result.spf_record = {TextOf(root_domain)}
          /\ result.included_domains = [i \in 1..Len(lookups) |-> lookups[i] + 1]

C9_Witness ==
    /\ Done
    /\ PureChain
    /\ target \in DeepTargets
    /\ result.ok
    /\ result.visited = DNS_LOOKUP_LIMIT
    /\ Len(result.included_domains) = DNS_LOOKUP_LIMIT
    /\ to_visit_stack = <<>>

\* root includes x only, and x publishes no record
DeadEndInclude(x) ==
    /\ x # root_domain
    /\ HasSpf(root_domain)
    /\ Edges(root_domain) = {x}
    /\ x \in DOMAIN resolver /\ resolver[x] = NoRecord

\* root redirects to r, r includes m only, and m publishes no record
DeadEndBehindRedirect(r, m) ==
    /\ Cardinality({root_domain, r, m}) = 3
    /\ resolver[root_domain] = Record(<<Redirect(r)>>)
    /\ HasSpf(r)
    /\ Edges(r) = {m}
    /\ m \in DOMAIN resolver /\ resolver[m] = NoRecord

\* C10: a returned visited count is the number of distinct domains
\* find_spf_record was called for, dead ends included: 2 for root and one
\* dead-end include, 3 for root, its redirect target and that one's dead-end
\* include.
C10_VisitedCountsQueried ==
    Returned =>
        /\ result.visited = Cardinality(Queried)
        /\ \A x \in Queried : (DeadEndInclude(x) /\ ~result.found) => result.visited = 2
        /\ \A r, m \in Queried :
              (DeadEndBehindRedirect(r, m) /\ ~result.found) => result.visited = 3

C10_Witness ==
    \E r, m \in Queried :
        /\ Returned
        /\ DeadEndBehindRedirect(r, m)
        /\ ~result.found
        /\ result.visited = 3

----------------------------------------------------------------------------
\* the redirect targets the record of d makes the traversal follow
ActionableRedirects(d) == IF HasAll(SpfOf(d)) THEN <<>> ELSE Redirects(SpfOf(d))

\* root's record holds one include of x and one redirect to r, in either order
IncludeAndRedirect(x, r) ==
    /\ Cardinality({root_domain, x, r}) = 3
    /\ root_domain \in DOMAIN resolver
    /\ resolver[root_domain] \in {Record(<<Include(x), Redirect(r)>>),
                                   Record(<<Redirect(r), Include(x)>>)}

\* C15: the frontier is a stack: a step pops its last entry and leaves the
\* entries below untouched, and expanding a record pushes its actionable
\* redirect first and its includes above it, so the includes are popped before
\* the redirect; with root 'include:x redirect=r' x is queried before r.
C15_IncludesBeforeRedirect ==
    /\ [][(pc = "loop" /\ to_visit_stack # <<>>) =>
            /\ Len(to_visit_stack') >= Len(to_visit_stack) - 1
            /\ SubSeq(to_visit_stack', 1, Len(to_visit_stack) - 1)
                 = SubSeq(to_visit_stack, 1, Len(to_visit_stack) - 1)
            /\ (pc' = "loop" /\ lookups' # lookups /\ resolver'[current_domain].txt # {})
                 => to_visit_stack' =
                      SubSeq(to_visit_stack, 1, Len(to_visit_stack) - 1)
                        \o (IF HasAll(Spf_from_str(CHOOSE t \in resolver'[current_domain].txt : TRUE))
                            THEN <<>>
                            ELSE Redirects(Spf_from_str(CHOOSE t \in resolver'[current_domain].txt : TRUE)))
                        \o Includes(Spf_from_str(CHOOSE t \in resolver'[current_domain].txt : TRUE))]_vars
    /\ []((Len(lookups) >= 2 /\ HasSpf(root_domain)) =>
            \A x \in Range(Includes(SpfOf(root_domain))) :
            \A r \in Range(Redirects(SpfOf(root_domain))) :
                IncludeAndRedirect(x, r)
                  => /\ lookups[2] = x
                     /\ r \in Queried => \E i \in 3..Len(lookups) : lookups[i] = r)

\* root's include was explored to a dead end before its redirect was queried
C15_Witness ==
    \E x, r \in Domain :
        /\ IncludeAndRedirect(x, r)
        /\ resolver[root_domain] = Record(<<Redirect(r), Include(x)>>)
        /\ Done
        /\ lookups = <<root_domain, x, r>>

\* C16: the record whose includes name target is the last one looked up: the
\* call returns found = true at once, and the step that finds it pushes
\* nothing on the frontier.
C16_EarlyExit ==
    /\ [](\A i \in 1..Len(lookups) : IncludedBy(lookups[i]) =>
            /\ i = Len(lookups)
            /\ Done
            /\ result.ok /\ result.found)
    /\ [][(pc = "loop" /\ pc' = "done" /\ result'.ok /\ result'.found)
            => to_visit_stack' = SubSeq(to_visit_stack, 1, Len(to_visit_stack) - 1)]_vars
    /\ [][pc # "done"]_vars

\* a match at the second domain with the frontier still holding a domain
\* that was never queried
C16_Witness ==
    /\ Returned
    /\ result.found
    /\ Len(lookups) = 2
    /\ \E i \in 1..Len(to_visit_stack) : to_visit_stack[i] \notin Queried

\* the include targets of a raw record, in record order
RECURSIVE IncludeTargets(_)
IncludeTargets(txt) ==
    IF txt = <<>> THEN <<>>
    ELSE (IF Head(txt).kind = "include" THEN <<CHOOSE d \in Head(txt).rrdata : TRUE>>
                                        ELSE <<>>)
           \o IncludeTargets(Tail(txt))

\* the include targets of the records of the domains of ds, in that order
RECURSIVE Gathered(_)
Gathered(ds) ==
    IF ds = <<>> THEN <<>>
    ELSE (IF HasSpf(Head(ds)) THEN IncludeTargets(TextOf(Head(ds))) ELSE <<>>)
           \o Gathered(Tail(ds))

\* C17: included_domains is the concatenation, in visiting order, of the
\* include targets (in record order, duplicates kept, no redirect targets) of
\* the visited domains that had a record, and an Ok result carries it.
C17_IncludedDomains ==
    /\ included_domains = Gathered(lookups)
    /\ Returned => result.included_domains = Gathered(lookups)

\* two visited records include the same domain, one of them also redirects
C17_Witness ==
    /\ Returned
    /\ Len(lookups) >= 2
    /\ \E i, j \in 1..Len(result.included_domains) :
          i # j /\ result.included_domains[i] = result.included_domains[j]
    /\ \E d \in Queried : HasSpf(d) /\ ActionableRedirects(d) # <<>>
                             /\ Range(ActionableRedirects(d)) \subseteq Queried

\* C18: an Ok result carries root's raw record exactly when root's lookup
\* gave a record that parsed, whatever was found and whatever other domains
\* publish.
C18_RootRecord ==
    Returned =>
        result.spf_record = (IF HasSpf(root_domain) THEN {TextOf(root_domain)} ELSE {})

\* a second domain's different record was read and root's record is returned
C18_Witness ==
    /\ Returned
    /\ Len(lookups) >= 2
    /\ HasSpf(root_domain) /\ HasSpf(lookups[2])
    /\ TextOf(lookups[2]) # TextOf(root_domain)
    /\ result.spf_record = {TextOf(root_domain)}

\* C19: found = true only if the record just looked up, of a domain reachable
\* from root, includes target; and when at most 10 domains are reachable, all
\* their records are known and none failed, found = false only if no reachable
\* domain's record includes target.
C19_MatchSoundAndComplete ==
    Returned =>
        IF result.found
        THEN /\ lookups[Len(lookups)] \in Reachable
             /\ Contains(IncludeTargets(TextOf(lookups[Len(lookups)])), target)
        ELSE (Reachable \subseteq DOMAIN resolver
                /\ Cardinality(Reachable) <= DNS_LOOKUP_LIMIT)
               => \A d \in Reachable :
                     HasSpf(d) => ~Contains(IncludeTargets(TextOf(d)), target)

\* a complete traversal through a redirect that did not find the target
C19_Witness ==
    /\ Returned
    /\ ~result.found
    /\ Reachable \subseteq DOMAIN resolver
    /\ Cardinality(Reachable) = 3
    /\ ActionableRedirects(root_domain) # <<>>

\* C20: on the include chain the 10th domain is still queried and matched:
\* a target its record includes gives found = true with visited = 10; the
\* 11th domain is never queried, so a target only its record includes gives
\* found = false.
C20_BudgetBoundary ==
    (Done /\ PureChain) =>
        /\ target = ChainDomain(DNS_LOOKUP_LIMIT + 1) =>
              /\ result.ok /\ result.found
              /\ result.visited = DNS_LOOKUP_LIMIT
              /\ lookups[DNS_LOOKUP_LIMIT] = ChainDomain(DNS_LOOKUP_LIMIT)
        /\ target = ChainDomain(DNS_LOOKUP_LIMIT + 2) =>
              /\ result.ok /\ ~result.found
              /\ result.visited = DNS_LOOKUP_LIMIT
              /\ ChainDomain(DNS_LOOKUP_LIMIT + 1) \notin Queried

C20_Witness ==
    /\ Done
    /\ PureChain
    /\ target = ChainDomain(DNS_LOOKUP_LIMIT + 1)
    /\ result.ok /\ result.found
    /\ Len(lookups) = DNS_LOOKUP_LIMIT

----------------------------------------------------------------------------
\* C11: a call starts from an empty visited set and a frontier holding only
\* root, and two calls with the same root and target against the same source,
\* one after the other or interleaved, return the same result after the same
\* lookups.
C11_CallsAreIsolated ==
    /\ [](other.pc # "idle" =>
            /\ other.visited = {other.lookups[i] : i \in 1..Len(other.lookups)}
            /\ other.lookups # <<>> => other.lookups[1] = root_domain)
    /\ []((Done /\ other.pc = "done") =>
            /\ other.result = result
            /\ other.lookups = lookups)
    /\ [][(other.pc = "idle" /\ other'.pc # "idle") =>
            /\ other'.visited = {}
            /\ other'.to_visit_stack = <<root_domain>>]_vars

\* both calls returned Ok after three lookups each, the third of a domain
\* that publishes a record
C11_Witness ==
    /\ Done /\ other.pc = "done"
    /\ result.ok /\ other.result.ok
    /\ Len(lookups) = 3 /\ Len(other.lookups) = 3
    /\ resolver[lookups[3]] # NoRecord

----------------------------------------------------------------------------
(* The claims about the HTTP service of main.rs.                           *)

RECURSIVE CallsAmong(_)
CallsAmong(ds) ==
    IF ds = {} THEN 0
    ELSE LET d == CHOOSE x \in ds : TRUE
         IN  get_spf_calls[d] + CallsAmong(ds \ {d})

\* the get_spf calls issued so far for the request
TotalCalls == CallsAmong(DOMAIN get_spf_calls)

\* C12: the get_spf calls issued while one check-spf request is served never
\* number more than 10, however many include branches are fanned out.
C12_GlobalCap == TotalCalls <= 10

\* get_spf was called for d and failed, or gave a record that does not parse
ServiceError(d) ==
    /\ d \in DOMAIN get_spf_calls
    /\ \/ ~resolver[d].ok
       \/ \E x \in resolver[d].txt : ~Spf_from_str(x).ok

\* C13: once a lookup has failed or a record has not parsed for any queried
\* domain, root, redirect target or include target alike, the request ends
\* with the error response and never with a 200 body.
C13_AnyErrorIsAnErrorResponse ==
    (response # NoResponse /\ \E d \in DOMAIN get_spf_calls : ServiceError(d))
        => response.status = 404

\* the root publishes exactly an all mechanism and a redirect to r
AllAndRedirect(r) ==
    /\ root_domain \in DOMAIN get_spf_calls
    /\ resolver[root_domain] \in {Record(<<All, Redirect(r)>>),
                                  Record(<<Redirect(r), All>>)}

====
